---- MODULE Spec2Model ----
(***************************************************************************)
(* nbchan: non-blocking channels.                                          *)
(*   - the lock-free FIFO queue (src/src/queue.rs) and the MPSC channel    *)
(*     built on it (src/src/mpsc.rs): specification SpecMpsc, and          *)
(*     SpecMpscFair where the threads keep running;                        *)
(*   - the oneshot channel (src/src/oneshot.rs): specification SpecOne.    *)
(* Every action is one atomic (SeqCst) access of shared memory together    *)
(* with the thread-local code around it.                                   *)
(***************************************************************************)
EXTENDS Integers, Sequences, FiniteSets

(* ---------------------------- bounds ----------------------------------- *)
NSenders == 2          \* sender threads (each holds at most one handle)
MaxItems == 3          \* items passed to send/try_send over a whole run
MaxBound == 1          \* largest bound given to sync_channel
NValues  == 2          \* distinct payloads offered to the oneshot send

(* ---------------------------- constants -------------------------------- *)
UsizeBits == 16        \* width kept for the AtomicUsize queue_len

Senders  == 1..NSenders
MaxCells == MaxItems + 1
Cells    == 1..MaxCells
NULL     == 0
UsizeMod == 2^UsizeBits
Items    == Senders \X (1..MaxItems)
NoItem   == <<0, 0>>
NoNode   == [item |-> NoItem, next |-> NULL]

Range(f) == {f[i] : i \in DOMAIN f}

(* ---------------------------- oneshot pointer values ------------------- *)
Values == 1..NValues

\* oneshot.rs:211-213: mark_empty is the null pointer
mark_empty == 0
\* oneshot.rs:205-208: mark_dropped is the address of a static byte
mark_dropped == -1
\* the address into_raw_ptr(t) returns for the one payload of a channel
PayloadPtr == 1
PtrValues == {mark_empty, mark_dropped, PayloadPtr}

NoResult == <<"none", 0>>

VARIABLES
  \* ---- MPSC: shared memory
  tail,          \* Arc<AtomicPtr<NodeRef>>: the tail cursor (a cell, or NULL)
  strong,        \* Arc::strong_count of the tail cursor
  cells,         \* cell -> the node its AtomicPtr<Node> holds (NoNode = null)
  cellSt,        \* cell -> "unalloc" | "live" | "freed"
  queue_len,     \* Arc<AtomicUsize>
  bounded,       \* TRUE: sync_channel(queue_capacity); FALSE: channel()
  queue_capacity,
  \* ---- MPSC: the receiver (one thread)
  head,          \* QueueHead.head
  rpc,           \* "idle" | "sub" | "alive" | "drain" | "dropped"
  rItem,         \* the item dequeued by the try_recv in progress
  rTail,         \* `tail` captured by Drop for QueueHead
  \* ---- MPSC: the sender threads
  spc,           \* s -> "idle" | "full" | "load" | "cas" | "store" | "disc"
  handle,        \* s -> "none" | "alive" | "dropped"
  sItem,         \* s -> the item of the send in progress
  sNext,         \* s -> the next-ref cell allocated by enqueue
  sOld,          \* s -> the tail loaded by replace_tail
  nsent,         \* s -> sends started by s
  \* ---- MPSC: history
  sent,          \* items passed to send/try_send
  okSent,        \* items whose send/try_send returned Ok
  admitted,      \* items that passed try_send's capacity check, not rolled back
  returned,      \* items handed back inside a send error
  received,      \* sequence of the items returned by try_recv
  drained,       \* items dropped by the receiver's destructor
  rres,          \* the result a try_recv returned in the step just taken
                 \* ("none" after any other step)
  discSeen,      \* some try_recv has returned Disconnected
  afterDisc,     \* results of the try_recv calls that returned after that
  uafQueue,      \* a freed or unallocated cell was accessed
  dfQueue,       \* a cell or a node that was not live was freed
  nodeLive,      \* items whose Node is allocated and not freed
  casOrder,      \* the items in the order their enqueues won the tail CAS
  dequeued,      \* the items in the order dequeue returned them
  sLate,         \* s -> its send in progress began after the receiver's
                 \* destructor had swapped the tail cursor
  sCasGone,      \* s -> that swap had happened when its CAS succeeded
  rLate,         \* the last try_recv began with every sender handle dropped
  \* ---- oneshot: shared memory
  oCell,         \* the AtomicPtr<T> in the shared box: a pointer value
  oCellSt,       \* "live" | "freed"
  oCellFrees,    \* times the shared box was freed
  payVal,        \* the value in the payload box (0: none allocated)
  payTakers,     \* who took the payload box back with from_raw_ptr
  payTakes,      \* times the payload box was taken back
  \* ---- oneshot: the sender
  txAvail,       \* Sender.0.is_available()
  tpc,           \* "start" | "sent" | "failed" | "dropping" | "done"
  tOld,          \* the value the sender's swap returned
  tVal,          \* the value passed to send (0: none)
  sendRes,       \* <<"none",0>> | <<"Ok",0>> | <<"Err",item>>
  \* ---- oneshot: the receiver
  rxAvail,       \* Receiver.0.is_available()
  opc,           \* "idle" | "loaded" | "dropping" | "done"
  oPtr,          \* the value try_recv loaded / the destructor's swap returned
  \* ---- oneshot: history
  txActed,       \* "no" | "sent" | "dropped": the sender's swap so far
  rxDropSwapped, \* the receiver's destructor has swapped the cell
  rxGoneAtSend,  \* rxDropSwapped at the moment of send's swap
  oRes,          \* result of the last try_recv that returned
  oLoaded,       \* that call loaded the cell
  oActedAtLoad,  \* txActed at the moment of that call's load
  oAfterSend,    \* the try_recv in progress began after send returned Ok
  firstAfter,    \* result of the first try_recv begun after send returned Ok
  laterAfter,    \* results of the later ones
  oGot,          \* values returned Ok by try_recv calls begun before that
  oEmptySeen,    \* some try_recv has returned Empty
  oUaf           \* the shared box was accessed after it was freed, or a
                 \* pointer that is no payload box was taken as one

mvars == <<tail, strong, cells, cellSt, queue_len, bounded, queue_capacity,
           head, rpc, rItem, rTail, spc, handle, sItem, sNext, sOld, nsent,
           sent, okSent, admitted, returned, received, drained, rres,
           discSeen, afterDisc, uafQueue, dfQueue, nodeLive, casOrder,
           dequeued, sLate, sCasGone, rLate>>

ovars == <<oCell, oCellSt, oCellFrees, payVal, payTakers, payTakes, txAvail,
           tpc, tOld, tVal, sendRes, rxAvail, opc, oPtr, txActed,
           rxDropSwapped, rxGoneAtSend, oRes, oLoaded, oActedAtLoad,
           oAfterSend, firstAfter, laterAfter, oGot, oEmptySeen,
           oUaf>>

vars == <<mvars, ovars>>

(* ---------------------------- heap ------------------------------------- *)
\* Box::into_raw(Box::new(NodeRef::null())): the next unused address.
FreshCell == CHOOSE c \in Cells : cellSt[c] = "unalloc" /\
                 \A d \in Cells : d < c => cellSt[d] # "unalloc"

TotalSent == Cardinality(sent)

(* ---------------------------- construction ----------------------------- *)
\* queue::fifo, then mpsc::channel or mpsc::sync_channel(bound)
InitMpsc ==
  /\ bounded \in BOOLEAN
  /\ queue_capacity \in 0..MaxBound
  /\ (~bounded => queue_capacity = 0)
  /\ tail = 1
  /\ head = 1
  /\ strong = 2
  /\ cells = [c \in Cells |-> NoNode]
  /\ cellSt = [c \in Cells |-> IF c = 1 THEN "live" ELSE "unalloc"]
  /\ queue_len = 0
  /\ rpc = "idle" /\ rItem = NoItem /\ rTail = NULL
  /\ spc = [s \in Senders |-> "idle"]
  /\ handle = [s \in Senders |-> IF s = 1 THEN "alive" ELSE "none"]
  /\ sItem = [s \in Senders |-> NoItem]
  /\ sNext = [s \in Senders |-> NULL]
  /\ sOld = [s \in Senders |-> NULL]
  /\ nsent = [s \in Senders |-> 0]
  /\ sent = {} /\ okSent = {} /\ admitted = {} /\ returned = {}
  /\ received = <<>> /\ drained = {}
  /\ rres = "none" /\ discSeen = FALSE /\ afterDisc = {}
  /\ uafQueue = FALSE
  /\ dfQueue = FALSE /\ nodeLive = {}
  /\ casOrder = <<>> /\ dequeued = <<>>
  /\ sLate = [s \in Senders |-> FALSE]
  /\ sCasGone = [s \in Senders |-> FALSE]
  /\ rLate = FALSE
  \* the oneshot channel, constructed and left alone
  /\ oCell = mark_empty /\ oCellSt = "live" /\ oCellFrees = 0
  /\ payVal = 0 /\ payTakers = {} /\ payTakes = 0
  /\ txAvail = TRUE /\ tpc = "start" /\ tOld = mark_empty /\ tVal = 0
  /\ sendRes = NoResult
  /\ rxAvail = TRUE /\ opc = "idle" /\ oPtr = mark_empty
  /\ txActed = "no" /\ rxDropSwapped = FALSE /\ rxGoneAtSend = FALSE
  /\ oRes = NoResult /\ oLoaded = FALSE /\ oActedAtLoad = "no"
  /\ oAfterSend = FALSE /\ firstAfter = NoResult /\ laterAfter = {}
  /\ oGot = {} /\ oEmptySeen = FALSE
  /\ oUaf = FALSE

(* ---------------------------- pure pieces of the code ------------------ *)
\* Node { item, next }
NodeOf(item, next) == [item |-> item, next |-> next]

\* faulty variant: the capacity check off by one (`len > self.queue_capacity`)
IsFull_OffByOne(len, cap) == len > cap

\* faulty variant: the capacity check one too early
IsFull_Early(len, cap) == len + 1 >= cap

\* mpsc.rs:83  `len >= self.queue_capacity`
IsFull(len, cap) == len >= cap

\* faulty variant: replace_tail with its null check inverted
TailIsNull_Inverted(old) == old # NULL

\* queue.rs:49  `old_tail.is_null()`
TailIsNull(old) == old = NULL

\* faulty variant: a blind swap in place of the compare_and_swap
CasSucceeds_Always(cur, old) == TRUE

\* queue.rs:52  `compare_and_swap(old, new_tail) == old`
CasSucceeds(cur, old) == cur = old

\* faulty variant: the receiver's own clone of the tail cursor left out of
\* the count
is_tail_alive_OffByOne(count) == count > 0

\* queue.rs:88  `Arc::strong_count(&self.tail) > 1`
is_tail_alive(count) == count > 1

\* faulty variant: the destructor without its drain loop
DrainMore_Never(h, t) == FALSE

\* faulty variant: a drain loop that never sees its end
DrainMore_Always(h, t) == TRUE

\* queue.rs:100  `while self.head != tail`
DrainMore(h, t) == h # t

\* faulty variant: a refused enqueue that forgets to free its `next` cell
RefusedNext_Kept == "live"

\* queue.rs:28  `mem::drop(unsafe { Box::from_raw(next) })`: the state the
\* refused enqueue leaves its `next` cell in
RefusedNext == "freed"

\* the receiver's destructor has swapped the tail cursor (queue.rs:99)
RxSwapped == rpc \in {"drain", "dropped"}

\* AtomicUsize::fetch_add(1) / fetch_sub(1): wrapping
FetchAdd(n) == (n + 1) % UsizeMod
FetchSub(n) == (n - 1) % UsizeMod

(* ---------------------------- QueueHead::dequeue ----------------------- *)
\* faulty variant: dequeue without `self.head = node.next` (and so without
\* the free of the cell it keeps pointing at)
dequeue_NoAdvance(res) ==
  LET node == cells[head] IN
  /\ uafQueue' = (uafQueue \/ cellSt[head] # "live")
  /\ UNCHANGED <<cellSt, head>>
  /\ res = node.item
  /\ IF node # NoNode
       THEN /\ dfQueue' = (dfQueue \/ node.item \notin nodeLive)
            /\ nodeLive' = nodeLive \ {node.item}
            /\ dequeued' = Append(dequeued, node.item)
       ELSE UNCHANGED <<dfQueue, nodeLive, dequeued>>

\* queue.rs:75-84.  res is the item returned, NoItem for None.  The load
\* takes the Node out of its Box (queue.rs:116-123), which frees it; the head
\* cell is freed (queue.rs:77).
dequeue(res) ==
  LET node == cells[head] IN
  /\ uafQueue' = (uafQueue \/ cellSt[head] # "live")
  /\ IF node # NoNode
       THEN /\ cellSt' = [cellSt EXCEPT ![head] = "freed"]
            /\ dfQueue' = (dfQueue \/ cellSt[head] # "live"
                                   \/ node.item \notin nodeLive)
            /\ nodeLive' = nodeLive \ {node.item}
            /\ dequeued' = Append(dequeued, node.item)
            /\ head' = node.next
            /\ res = node.item
       ELSE /\ UNCHANGED <<cellSt, head, dfQueue, nodeLive, dequeued>>
            /\ res = NoItem

(* ---------------------------- sender threads --------------------------- *)
NextItem(s) == <<s, nsent[s] + 1>>

CanSend(s) == handle[s] = "alive" /\ spc[s] = "idle" /\ TotalSent < MaxItems

\* Sender::send -> QueueTail::enqueue, up to the allocation of `next`
\* (mpsc.rs:48-50, queue.rs:21-22)
SendStart(s) ==
  /\ ~bounded /\ CanSend(s)
  /\ sItem' = [sItem EXCEPT ![s] = NextItem(s)]
  /\ nsent' = [nsent EXCEPT ![s] = @ + 1]
  /\ sent' = sent \cup {NextItem(s)}
  /\ sNext' = [sNext EXCEPT ![s] = FreshCell]
  /\ cellSt' = [cellSt EXCEPT ![FreshCell] = "live"]
  /\ spc' = [spc EXCEPT ![s] = "load"]
  /\ UNCHANGED <<tail, strong, cells, queue_len, bounded, queue_capacity,
                 head, rpc, rItem, rTail, handle, sOld, okSent, admitted,
                 returned, received, drained, discSeen, afterDisc, uafQueue>>
  /\ rres' = "none"
  /\ sLate' = [sLate EXCEPT ![s] = RxSwapped]
  /\ UNCHANGED <<dfQueue, nodeLive, casOrder,
                 dequeued, sCasGone, rLate>>
  /\ UNCHANGED ovars

\* SyncSender::try_send: the fetch_add and the capacity check (mpsc.rs:81-83);
\* when admitted, on into enqueue's allocation of `next`
TrySendStart(s) ==
  /\ bounded /\ CanSend(s)
  /\ sItem' = [sItem EXCEPT ![s] = NextItem(s)]
  /\ nsent' = [nsent EXCEPT ![s] = @ + 1]
  /\ sent' = sent \cup {NextItem(s)}
  /\ queue_len' = FetchAdd(queue_len)
  /\ IF IsFull(queue_len, queue_capacity)
       THEN /\ spc' = [spc EXCEPT ![s] = "full"]
            /\ UNCHANGED <<sNext, cellSt, admitted>>
       ELSE /\ spc' = [spc EXCEPT ![s] = "load"]
            /\ sNext' = [sNext EXCEPT ![s] = FreshCell]
            /\ cellSt' = [cellSt EXCEPT ![FreshCell] = "live"]
            /\ admitted' = admitted \cup {NextItem(s)}
  /\ UNCHANGED <<tail, strong, cells, bounded, queue_capacity, head, rpc,
                 rItem, rTail, handle, sOld, okSent, returned, received,
                 drained, discSeen, afterDisc, uafQueue>>
  /\ rres' = "none"
  /\ sLate' = [sLate EXCEPT ![s] = RxSwapped]
  /\ UNCHANGED <<dfQueue, nodeLive, casOrder,
                 dequeued, sCasGone, rLate>>
  /\ UNCHANGED ovars

\* mpsc.rs:84-85: roll back, Err(TrySendError::Full(item))
TrySendFull(s) ==
  /\ spc[s] = "full"
  /\ queue_len' = FetchSub(queue_len)
  /\ returned' = returned \cup {sItem[s]}
  /\ sItem' = [sItem EXCEPT ![s] = NoItem]
  /\ spc' = [spc EXCEPT ![s] = "idle"]
  /\ UNCHANGED <<tail, strong, cells, cellSt, bounded, queue_capacity, head,
                 rpc, rItem, rTail, handle, sNext, sOld, nsent, sent, okSent,
                 admitted, received, drained, discSeen, afterDisc, uafQueue>>
  /\ rres' = "none"
  /\ sLate' = [sLate EXCEPT ![s] = FALSE]
  /\ UNCHANGED <<dfQueue, nodeLive, casOrder,
                 dequeued, sCasGone, rLate>>
  /\ UNCHANGED ovars

\* replace_tail: the load (queue.rs:48-51).  On null: enqueue frees `next`
\* and hands the item back (queue.rs:28-29); Sender::send returns
\* Err(SendError(item)) (mpsc.rs:49-50), try_send goes on to its fetch_sub.
ReplaceTailLoad(s) ==
  /\ spc[s] = "load"
  /\ IF TailIsNull(tail)
       THEN /\ cellSt' = [cellSt EXCEPT ![sNext[s]] = RefusedNext]
            /\ dfQueue' = (dfQueue \/ cellSt[sNext[s]] # "live")
            /\ sNext' = [sNext EXCEPT ![s] = NULL]
            /\ sOld' = [sOld EXCEPT ![s] = NULL]
            /\ IF bounded
                 THEN /\ spc' = [spc EXCEPT ![s] = "disc"]
                      /\ UNCHANGED <<returned, sItem, sLate>>
                 ELSE /\ spc' = [spc EXCEPT ![s] = "idle"]
                      /\ returned' = returned \cup {sItem[s]}
                      /\ sItem' = [sItem EXCEPT ![s] = NoItem]
                      /\ sLate' = [sLate EXCEPT ![s] = FALSE]
       ELSE /\ sOld' = [sOld EXCEPT ![s] = tail]
            /\ spc' = [spc EXCEPT ![s] = "cas"]
            /\ UNCHANGED <<cellSt, sNext, returned, sItem, dfQueue, sLate>>
  /\ UNCHANGED <<tail, strong, cells, queue_len, bounded, queue_capacity,
                 head, rpc, rItem, rTail, handle, nsent, sent, okSent,
                 admitted, received, drained, discSeen, afterDisc, uafQueue>>
  /\ UNCHANGED <<nodeLive, casOrder, dequeued, sCasGone, rLate>>
  /\ rres' = "none"
  /\ UNCHANGED ovars

\* replace_tail: the compare_and_swap (queue.rs:52-54)
ReplaceTailCas(s) ==
  /\ spc[s] = "cas"
  /\ IF CasSucceeds(tail, sOld[s])
       THEN /\ tail' = sNext[s]
            /\ spc' = [spc EXCEPT ![s] = "store"]
            /\ casOrder' = Append(casOrder, sItem[s])
            /\ sCasGone' = [sCasGone EXCEPT ![s] = RxSwapped]
       ELSE /\ spc' = [spc EXCEPT ![s] = "load"]
            /\ UNCHANGED <<tail, casOrder, sCasGone>>
  /\ UNCHANGED <<strong, cells, cellSt, queue_len, bounded, queue_capacity,
                 head, rpc, rItem, rTail, handle, sItem, sNext, sOld, nsent,
                 sent, okSent, admitted, returned, received, drained,
                 discSeen, afterDisc, uafQueue>>
  /\ rres' = "none"
  /\ UNCHANGED <<dfQueue, nodeLive, dequeued, sLate, rLate>>
  /\ UNCHANGED ovars

\* enqueue: the node store into the slot won (queue.rs:24-26); the send
\* returns Ok(()) (mpsc.rs:51-52, mpsc.rs:89-90)
EnqueueStore(s) ==
  /\ spc[s] = "store"
  /\ cells' = [cells EXCEPT ![sOld[s]] = NodeOf(sItem[s], sNext[s])]
  /\ uafQueue' = (uafQueue \/ cellSt[sOld[s]] # "live")
  /\ okSent' = okSent \cup {sItem[s]}
  /\ sItem' = [sItem EXCEPT ![s] = NoItem]
  /\ sNext' = [sNext EXCEPT ![s] = NULL]
  /\ sOld' = [sOld EXCEPT ![s] = NULL]
  /\ spc' = [spc EXCEPT ![s] = "idle"]
  /\ UNCHANGED <<tail, strong, cellSt, queue_len, bounded, queue_capacity,
                 head, rpc, rItem, rTail, handle, nsent, sent, admitted,
                 returned, received, drained, discSeen, afterDisc>>
  /\ rres' = "none"
  /\ nodeLive' = nodeLive \cup {sItem[s]}
  /\ sLate' = [sLate EXCEPT ![s] = FALSE]
  /\ sCasGone' = [sCasGone EXCEPT ![s] = FALSE]
  /\ UNCHANGED <<dfQueue, casOrder, dequeued, rLate>>
  /\ UNCHANGED ovars

\* mpsc.rs:86-88: roll back, Err(TrySendError::Disconnected(item))
TrySendDisconnected(s) ==
  /\ spc[s] = "disc"
  /\ queue_len' = FetchSub(queue_len)
  /\ admitted' = admitted \ {sItem[s]}
  /\ returned' = returned \cup {sItem[s]}
  /\ sItem' = [sItem EXCEPT ![s] = NoItem]
  /\ spc' = [spc EXCEPT ![s] = "idle"]
  /\ UNCHANGED <<tail, strong, cells, cellSt, bounded, queue_capacity, head,
                 rpc, rItem, rTail, handle, sNext, sOld, nsent, sent, okSent,
                 received, drained, discSeen, afterDisc, uafQueue>>
  /\ rres' = "none"
  /\ sLate' = [sLate EXCEPT ![s] = FALSE]
  /\ UNCHANGED <<dfQueue, nodeLive, casOrder,
                 dequeued, sCasGone, rLate>>
  /\ UNCHANGED ovars

\* Clone for Sender / SyncSender (mpsc.rs:58-64, 96-104; queue.rs:60-66):
\* thread s hands a clone of its handle to thread t, the next thread that
\* has had none (the threads without a handle are interchangeable)
CloneSender(s, t) ==
  /\ handle[s] = "alive" /\ spc[s] = "idle" /\ handle[t] = "none"
  /\ \A u \in Senders : u < t => handle[u] # "none"
  /\ handle' = [handle EXCEPT ![t] = "alive"]
  /\ strong' = strong + 1
  /\ UNCHANGED <<tail, cells, cellSt, queue_len, bounded, queue_capacity,
                 head, rpc, rItem, rTail, spc, sItem, sNext, sOld, nsent,
                 sent, okSent, admitted, returned, received, drained,
                 discSeen, afterDisc, uafQueue>>
  /\ rres' = "none"
  /\ UNCHANGED <<dfQueue, nodeLive, casOrder, dequeued,
                 sLate, sCasGone, rLate>>
  /\ UNCHANGED ovars

\* drop of a Sender / SyncSender: its Arc clone of the tail cursor goes
DropSender(s) ==
  /\ handle[s] = "alive" /\ spc[s] = "idle"
  /\ handle' = [handle EXCEPT ![s] = "dropped"]
  /\ strong' = strong - 1
  /\ UNCHANGED <<tail, cells, cellSt, queue_len, bounded, queue_capacity,
                 head, rpc, rItem, rTail, spc, sItem, sNext, sOld, nsent,
                 sent, okSent, admitted, returned, received, drained,
                 discSeen, afterDisc, uafQueue>>
  /\ rres' = "none"
  /\ UNCHANGED <<dfQueue, nodeLive, casOrder, dequeued,
                 sLate, sCasGone, rLate>>
  /\ UNCHANGED ovars

(* ---------------------------- the receiver ----------------------------- *)
\* what a returning try_recv leaves in the history
Return(r) ==
  /\ rres' = r
  /\ discSeen' = (discSeen \/ r = "Disconnected")
  /\ afterDisc' = IF discSeen THEN afterDisc \cup {r} ELSE afterDisc

\* Receiver::try_recv: head.dequeue() (mpsc.rs:121-122)
TryRecvDequeue ==
  /\ rpc = "idle"
  /\ \E res \in Items \cup {NoItem} :
       /\ dequeue(res)
       /\ rItem' = res
       /\ rpc' = IF res # NoItem THEN "sub" ELSE "alive"
  /\ UNCHANGED <<tail, strong, cells, queue_len, bounded, queue_capacity,
                 rTail, spc, handle, sItem, sNext, sOld, nsent, sent, okSent,
                 admitted, returned, received, drained, discSeen, afterDisc>>
  /\ rres' = "none"
  /\ rLate' = \A s \in Senders : handle[s] # "alive"
  /\ UNCHANGED <<casOrder, sLate, sCasGone>>
  /\ UNCHANGED ovars

\* mpsc.rs:123-124: queue_len.fetch_sub(1); Ok(item)
TryRecvOk ==
  /\ rpc = "sub"
  /\ queue_len' = FetchSub(queue_len)
  /\ received' = Append(received, rItem)
  /\ rItem' = NoItem
  /\ Return("Ok")
  /\ rpc' = "idle"
  /\ UNCHANGED <<tail, strong, cells, cellSt, bounded, queue_capacity, head,
                 rTail, spc, handle, sItem, sNext, sOld, nsent, sent, okSent,
                 admitted, returned, drained, uafQueue>>
  /\ UNCHANGED <<dfQueue, nodeLive, casOrder, dequeued,
                 sLate, sCasGone, rLate>>
  /\ UNCHANGED ovars

\* mpsc.rs:125-129: head.is_tail_alive() decides Empty / Disconnected
TryRecvErr ==
  /\ rpc = "alive"
  /\ Return(IF is_tail_alive(strong) THEN "Empty" ELSE "Disconnected")
  /\ rpc' = "idle"
  /\ UNCHANGED <<tail, strong, cells, cellSt, queue_len, bounded,
                 queue_capacity, head, rItem, rTail, spc, handle, sItem,
                 sNext, sOld, nsent, sent, okSent, admitted, returned,
                 received, drained, uafQueue>>
  /\ UNCHANGED <<dfQueue, nodeLive, casOrder, dequeued,
                 sLate, sCasGone, rLate>>
  /\ UNCHANGED ovars

\* Drop for QueueHead: the swap of the tail cursor to null (queue.rs:99)
DropReceiver ==
  /\ rpc = "idle"
  /\ rTail' = tail
  /\ tail' = NULL
  /\ rpc' = "drain"
  /\ UNCHANGED <<strong, cells, cellSt, queue_len, bounded, queue_capacity,
                 head, rItem, spc, handle, sItem, sNext, sOld, nsent, sent,
                 okSent, admitted, returned, received, drained, discSeen,
                 afterDisc, uafQueue>>
  /\ rres' = "none"
  /\ UNCHANGED <<dfQueue, nodeLive, casOrder, dequeued, sLate, sCasGone,
                 rLate>>
  /\ UNCHANGED ovars

\* Drop for QueueHead: one turn of the drain loop (queue.rs:100-102)
DrainStep ==
  /\ rpc = "drain" /\ DrainMore(head, rTail)
  /\ \E res \in Items \cup {NoItem} :
       /\ dequeue(res)
       /\ drained' = IF res # NoItem THEN drained \cup {res} ELSE drained
  /\ UNCHANGED <<tail, strong, cells, queue_len, bounded, queue_capacity, rpc,
                 rItem, rTail, spc, handle, sItem, sNext, sOld, nsent, sent,
                 okSent, admitted, returned, received, discSeen, afterDisc>>
  /\ rres' = "none"
  /\ UNCHANGED <<casOrder, sLate, sCasGone, rLate>>
  /\ UNCHANGED ovars

\* Drop for QueueHead: the loop ends, the last cell is freed (queue.rs:103);
\* then the receiver's Arc clone of the tail cursor goes
DropFinish ==
  /\ rpc = "drain" /\ ~DrainMore(head, rTail)
  /\ uafQueue' = (uafQueue \/ cellSt[head] # "live")
  /\ cellSt' = [cellSt EXCEPT ![head] = "freed"]
  /\ strong' = strong - 1
  /\ rpc' = "dropped"
  /\ UNCHANGED <<tail, cells, queue_len, bounded, queue_capacity, head, rItem,
                 rTail, spc, handle, sItem, sNext, sOld, nsent, sent, okSent,
                 admitted, returned, received, drained, discSeen, afterDisc>>
  /\ rres' = "none"
  /\ dfQueue' = (dfQueue \/ cellSt[head] # "live")
  /\ UNCHANGED <<nodeLive, casOrder, dequeued,
                 sLate, sCasGone, rLate>>
  /\ UNCHANGED ovars

NextMpsc ==
  \/ \E s \in Senders : SendStart(s)
  \/ \E s \in Senders : TrySendStart(s)
  \/ \E s \in Senders : TrySendFull(s)
  \/ \E s \in Senders : ReplaceTailLoad(s)
  \/ \E s \in Senders : ReplaceTailCas(s)
  \/ \E s \in Senders : EnqueueStore(s)
  \/ \E s \in Senders : TrySendDisconnected(s)
  \/ \E s, t \in Senders : CloneSender(s, t)
  \/ \E s \in Senders : DropSender(s)
  \/ TryRecvDequeue
  \/ TryRecvOk
  \/ TryRecvErr
  \/ DropReceiver
  \/ DrainStep
  \/ DropFinish


(* ======================================================================= *)
(*                         oneshot channel                                 *)
(* ======================================================================= *)
\* SharedBox::allocate and channel (oneshot.rs:65-70, 168-171)
InitOne ==
  /\ oCell = mark_empty /\ oCellSt = "live" /\ oCellFrees = 0
  /\ payVal = 0 /\ payTakers = {} /\ payTakes = 0
  /\ txAvail = TRUE /\ tpc = "start" /\ tOld = mark_empty /\ tVal = 0
  /\ sendRes = NoResult
  /\ rxAvail = TRUE /\ opc = "idle" /\ oPtr = mark_empty
  /\ txActed = "no" /\ rxDropSwapped = FALSE /\ rxGoneAtSend = FALSE
  /\ oRes = NoResult /\ oLoaded = FALSE /\ oActedAtLoad = "no"
  /\ oAfterSend = FALSE /\ firstAfter = NoResult /\ laterAfter = {}
  /\ oGot = {} /\ oEmptySeen = FALSE
  /\ oUaf = FALSE
  \* the MPSC channel, constructed by channel() and left alone
  /\ bounded = FALSE
  /\ queue_capacity = 0
  /\ tail = 1
  /\ head = 1
  /\ strong = 2
  /\ cells = [c \in Cells |-> NoNode]
  /\ cellSt = [c \in Cells |-> IF c = 1 THEN "live" ELSE "unalloc"]
  /\ queue_len = 0
  /\ rpc = "idle" /\ rItem = NoItem /\ rTail = NULL
  /\ spc = [s \in Senders |-> "idle"]
  /\ handle = [s \in Senders |-> IF s = 1 THEN "alive" ELSE "none"]
  /\ sItem = [s \in Senders |-> NoItem]
  /\ sNext = [s \in Senders |-> NULL]
  /\ sOld = [s \in Senders |-> NULL]
  /\ nsent = [s \in Senders |-> 0]
  /\ sent = {} /\ okSent = {} /\ admitted = {} /\ returned = {}
  /\ received = <<>> /\ drained = {}
  /\ rres = "none" /\ discSeen = FALSE /\ afterDisc = {}
  /\ uafQueue = FALSE
  /\ dfQueue = FALSE /\ nodeLive = {}
  /\ casOrder = <<>> /\ dequeued = <<>>
  /\ sLate = [s \in Senders |-> FALSE]
  /\ sCasGone = [s \in Senders |-> FALSE]
  /\ rLate = FALSE

\* What an atomic load or swap of the shared box can return: its content,
\* or anything at all once the box has been freed.
CellReads == IF oCellSt = "live" THEN {oCell} ELSE PtrValues

\* from_raw_ptr(ptr) (oneshot.rs:221-223): the values it can yield.  Of the
\* payload box, the value in it; of any other pointer, anything.
BoxedValues(ptr) == IF ptr = PayloadPtr /\ payVal # 0 THEN {payVal} ELSE Values

\* faulty variant: send takes every swap for a success
SendSucceeded_Always(old) == TRUE

\* oneshot.rs:97  `old == mark_empty()`
SendSucceeded(old) == old = mark_empty

\* faulty variant: the sender's destructor frees the shared box whatever it saw
TxDropMustRelease_Always(old) == TRUE

\* faulty variant: the sender's destructor never frees the shared box
TxDropMustRelease_Never(old) == FALSE

\* oneshot.rs:115  `old == mark_dropped()`
TxDropMustRelease(old) == old = mark_dropped

\* faulty variant: try_recv takes the Dropped mark for an empty cell
RecvKind_DroppedAsEmpty(ptr) ==
  IF ptr = mark_empty \/ ptr = mark_dropped THEN "Empty" ELSE "Ok"

\* oneshot.rs:135-144: the three branches of try_recv
RecvKind(ptr) ==
  IF ptr = mark_empty THEN "Empty"
  ELSE IF ptr = mark_dropped THEN "Disconnected"
  ELSE "Ok"

\* faulty variant: the receiver's destructor frees the shared box whatever it saw
RxDropMustRelease_Always(old) == TRUE

\* oneshot.rs:151  `old != mark_empty()`
RxDropMustRelease(old) == old # mark_empty

\* faulty variant: the receiver's destructor forgets the unreceived item
RxDropHasItem_Never(old) == FALSE

\* oneshot.rs:153  `old != mark_dropped()`
RxDropHasItem(old) == old # mark_dropped

\* faulty variant: release without `self.0 = ptr::null_mut()`
ReleasedAvail_Kept == TRUE

\* SharedBox::release, SharedBox::abandon (oneshot.rs:177, 183): the
\* handle's pointer afterwards is null
ReleasedAvail == FALSE

(* ---------------------------- the sender ------------------------------- *)
\* Sender::send: into_raw_ptr(t) and the swap (oneshot.rs:94-96)
SendSwap(v) ==
  /\ tpc = "start"
  /\ tVal' = v
  /\ payVal' = v
  /\ \E old \in CellReads : tOld' = old
  /\ oUaf' = (oUaf \/ oCellSt # "live")
  /\ oCell' = PayloadPtr
  /\ txActed' = "sent"
  /\ rxGoneAtSend' = rxDropSwapped
  /\ tpc' = "sent"
  /\ UNCHANGED <<oCellSt, oCellFrees, payTakers, payTakes, txAvail, sendRes,
                 rxAvail, opc, oPtr, rxDropSwapped, oRes, oLoaded,
                 oActedAtLoad, oAfterSend, firstAfter, laterAfter>>
  /\ UNCHANGED <<oGot, oEmptySeen>>
  /\ UNCHANGED mvars

\* oneshot.rs:97-100: abandon, Ok(()); the Sender then drops with a null
\* pointer and its destructor does nothing (oneshot.rs:112)
SendOk ==
  /\ tpc = "sent" /\ SendSucceeded(tOld)
  /\ txAvail' = ReleasedAvail
  /\ sendRes' = <<"Ok", 0>>
  /\ tpc' = "done"
  /\ UNCHANGED <<oCell, oCellSt, oCellFrees, payVal, payTakers, payTakes,
                 tOld, tVal, rxAvail, opc, oPtr, txActed, rxDropSwapped,
                 rxGoneAtSend, oRes, oLoaded, oActedAtLoad, oAfterSend,
                 firstAfter, laterAfter, oUaf>>
  /\ UNCHANGED <<oGot, oEmptySeen>>
  /\ UNCHANGED mvars

\* oneshot.rs:101-104: the receiver has dropped; load the cell and take the
\* payload back
SendFailLoad ==
  /\ tpc = "sent" /\ ~SendSucceeded(tOld)
  /\ \E ptr \in CellReads : \E t \in BoxedValues(ptr) :
       /\ sendRes' = <<"Err", t>>
       /\ payTakes' = payTakes + 1
       /\ payTakers' = payTakers \cup {"send"}
       /\ oUaf' = (oUaf \/ oCellSt # "live" \/ ptr # PayloadPtr)
  /\ tpc' = "failed"
  /\ UNCHANGED <<oCell, oCellSt, oCellFrees, payVal, txAvail, tOld, tVal,
                 rxAvail, opc, oPtr, txActed, rxDropSwapped, rxGoneAtSend,
                 oRes, oLoaded, oActedAtLoad, oAfterSend, firstAfter,
                 laterAfter>>
  /\ UNCHANGED <<oGot, oEmptySeen>>
  /\ UNCHANGED mvars

\* oneshot.rs:105-106: release, Err(SendError(t))
SendFailRelease ==
  /\ tpc = "failed"
  /\ oCellSt' = "freed"
  /\ oCellFrees' = oCellFrees + 1
  /\ txAvail' = ReleasedAvail
  /\ tpc' = "done"
  /\ UNCHANGED <<oCell, payVal, payTakers, payTakes, tOld, tVal, sendRes,
                 rxAvail, opc, oPtr, txActed, rxDropSwapped, rxGoneAtSend,
                 oRes, oLoaded, oActedAtLoad, oAfterSend, firstAfter,
                 laterAfter, oUaf>>
  /\ UNCHANGED <<oGot, oEmptySeen>>
  /\ UNCHANGED mvars

\* Drop for Sender, the channel unused: the swap (oneshot.rs:111-114)
SenderDropSwap ==
  /\ tpc = "start" /\ txAvail
  /\ \E old \in CellReads : tOld' = old
  /\ oUaf' = (oUaf \/ oCellSt # "live")
  /\ oCell' = mark_dropped
  /\ txActed' = "dropped"
  /\ tpc' = "dropping"
  /\ UNCHANGED <<oCellSt, oCellFrees, payVal, payTakers, payTakes, txAvail,
                 tVal, sendRes, rxAvail, opc, oPtr, rxDropSwapped,
                 rxGoneAtSend, oRes, oLoaded, oActedAtLoad, oAfterSend,
                 firstAfter, laterAfter>>
  /\ UNCHANGED <<oGot, oEmptySeen>>
  /\ UNCHANGED mvars

\* oneshot.rs:115-118: release when the receiver dropped first
SenderDropFinish ==
  /\ tpc = "dropping"
  /\ IF TxDropMustRelease(tOld)
       THEN /\ oCellSt' = "freed"
            /\ oCellFrees' = oCellFrees + 1
            /\ txAvail' = ReleasedAvail
       ELSE UNCHANGED <<oCellSt, oCellFrees, txAvail>>
  /\ tpc' = "done"
  /\ UNCHANGED <<oCell, payVal, payTakers, payTakes, tOld, tVal, sendRes,
                 rxAvail, opc, oPtr, txActed, rxDropSwapped, rxGoneAtSend,
                 oRes, oLoaded, oActedAtLoad, oAfterSend, firstAfter,
                 laterAfter, oUaf>>
  /\ UNCHANGED <<oGot, oEmptySeen>>
  /\ UNCHANGED mvars

(* ---------------------------- the receiver ----------------------------- *)
\* what a returning try_recv leaves in the history
OneReturn(r, loaded, afterSend) ==
  /\ oRes' = r
  /\ oLoaded' = loaded
  /\ oEmptySeen' = (oEmptySeen \/ r[1] = "Empty")
  /\ oGot' = IF ~afterSend /\ r[1] = "Ok" THEN oGot \cup {r[2]} ELSE oGot
  /\ IF afterSend
       THEN IF firstAfter = NoResult
              THEN firstAfter' = r /\ UNCHANGED laterAfter
              ELSE laterAfter' = laterAfter \cup {r} /\ UNCHANGED firstAfter
       ELSE UNCHANGED <<firstAfter, laterAfter>>

\* Receiver::try_recv with the pointer already null (oneshot.rs:130-132)
TryRecvReleased ==
  /\ opc = "idle" /\ ~rxAvail
  /\ OneReturn(<<"Disconnected", 0>>, FALSE, sendRes[1] = "Ok")
  /\ UNCHANGED <<oCell, oCellSt, oCellFrees, payVal, payTakers, payTakes,
                 txAvail, tpc, tOld, tVal, sendRes, rxAvail, opc, oPtr,
                 txActed, rxDropSwapped, rxGoneAtSend, oActedAtLoad,
                 oAfterSend, oUaf>>
  /\ UNCHANGED mvars

\* Receiver::try_recv: the load (oneshot.rs:130-134)
TryRecvLoad ==
  /\ opc = "idle" /\ rxAvail
  /\ \E ptr \in CellReads : oPtr' = ptr
  /\ oUaf' = (oUaf \/ oCellSt # "live")
  /\ oActedAtLoad' = txActed
  /\ oAfterSend' = (sendRes[1] = "Ok")
  /\ opc' = "loaded"
  /\ UNCHANGED <<oCell, oCellSt, oCellFrees, payVal, payTakers, payTakes,
                 txAvail, tpc, tOld, tVal, sendRes, rxAvail, txActed,
                 rxDropSwapped, rxGoneAtSend, oRes, oLoaded, firstAfter,
                 laterAfter>>
  /\ UNCHANGED <<oGot, oEmptySeen>>
  /\ UNCHANGED mvars

\* oneshot.rs:135-136: Err(Empty)
TryRecvEmpty ==
  /\ opc = "loaded" /\ RecvKind(oPtr) = "Empty"
  /\ OneReturn(<<"Empty", 0>>, TRUE, oAfterSend)
  /\ opc' = "idle"
  /\ UNCHANGED <<oCell, oCellSt, oCellFrees, payVal, payTakers, payTakes,
                 txAvail, tpc, tOld, tVal, sendRes, rxAvail, oPtr, txActed,
                 rxDropSwapped, rxGoneAtSend, oActedAtLoad, oAfterSend, oUaf>>
  /\ UNCHANGED mvars

\* oneshot.rs:137-139: release, Err(Disconnected)
TryRecvDisconnected ==
  /\ opc = "loaded" /\ RecvKind(oPtr) = "Disconnected"
  /\ oCellSt' = "freed"
  /\ oCellFrees' = oCellFrees + 1
  /\ rxAvail' = ReleasedAvail
  /\ OneReturn(<<"Disconnected", 0>>, TRUE, oAfterSend)
  /\ opc' = "idle"
  /\ UNCHANGED <<oCell, payVal, payTakers, payTakes, txAvail, tpc, tOld, tVal,
                 sendRes, oPtr, txActed, rxDropSwapped, rxGoneAtSend,
                 oActedAtLoad, oAfterSend, oUaf>>
  /\ UNCHANGED mvars

\* oneshot.rs:140-143: from_raw_ptr(ptr), release, Ok(t)
TryRecvOne ==
  /\ opc = "loaded" /\ RecvKind(oPtr) = "Ok"
  /\ \E t \in BoxedValues(oPtr) :
       OneReturn(<<"Ok", t>>, TRUE, oAfterSend)
  /\ payTakes' = payTakes + 1
  /\ payTakers' = payTakers \cup {"recv"}
  /\ oUaf' = (oUaf \/ oPtr # PayloadPtr)
  /\ oCellSt' = "freed"
  /\ oCellFrees' = oCellFrees + 1
  /\ rxAvail' = ReleasedAvail
  /\ opc' = "idle"
  /\ UNCHANGED <<oCell, payVal, txAvail, tpc, tOld, tVal, sendRes, oPtr,
                 txActed, rxDropSwapped, rxGoneAtSend, oActedAtLoad,
                 oAfterSend>>
  /\ UNCHANGED mvars

\* Drop for Receiver with the pointer already null (oneshot.rs:149)
ReceiverDropReleased ==
  /\ opc = "idle" /\ ~rxAvail
  /\ opc' = "done"
  /\ UNCHANGED <<oCell, oCellSt, oCellFrees, payVal, payTakers, payTakes,
                 txAvail, tpc, tOld, tVal, sendRes, rxAvail, oPtr, txActed,
                 rxDropSwapped, rxGoneAtSend, oRes, oLoaded, oActedAtLoad,
                 oAfterSend, firstAfter, laterAfter, oUaf>>
  /\ UNCHANGED <<oGot, oEmptySeen>>
  /\ UNCHANGED mvars

\* Drop for Receiver: the swap (oneshot.rs:149-150)
ReceiverDropSwap ==
  /\ opc = "idle" /\ rxAvail
  /\ \E old \in CellReads : oPtr' = old
  /\ oUaf' = (oUaf \/ oCellSt # "live")
  /\ oCell' = mark_dropped
  /\ rxDropSwapped' = TRUE
  /\ opc' = "dropping"
  /\ UNCHANGED <<oCellSt, oCellFrees, payVal, payTakers, payTakes, txAvail,
                 tpc, tOld, tVal, sendRes, rxAvail, txActed, rxGoneAtSend,
                 oRes, oLoaded, oActedAtLoad, oAfterSend, firstAfter,
                 laterAfter>>
  /\ UNCHANGED <<oGot, oEmptySeen>>
  /\ UNCHANGED mvars

\* oneshot.rs:151-158: free the unreceived item, release
ReceiverDropFinish ==
  /\ opc = "dropping"
  /\ IF RxDropMustRelease(oPtr)
       THEN /\ IF RxDropHasItem(oPtr)
                 THEN /\ payTakes' = payTakes + 1
                      /\ payTakers' = payTakers \cup {"drop"}
                      /\ oUaf' = (oUaf \/ oPtr # PayloadPtr)
                 ELSE UNCHANGED <<payTakes, payTakers, oUaf>>
            /\ oCellSt' = "freed"
            /\ oCellFrees' = oCellFrees + 1
            /\ rxAvail' = ReleasedAvail
       ELSE UNCHANGED <<payTakes, payTakers, oUaf, oCellSt, oCellFrees,
                        rxAvail>>
  /\ opc' = "done"
  /\ UNCHANGED <<oCell, payVal, txAvail, tpc, tOld, tVal, sendRes, oPtr,
                 txActed, rxDropSwapped, rxGoneAtSend, oRes, oLoaded,
                 oActedAtLoad, oAfterSend, firstAfter, laterAfter>>
  /\ UNCHANGED <<oGot, oEmptySeen>>
  /\ UNCHANGED mvars

NextOne ==
  \/ \E v \in Values : SendSwap(v)
  \/ SendOk
  \/ SendFailLoad
  \/ SendFailRelease
  \/ SenderDropSwap
  \/ SenderDropFinish
  \/ TryRecvReleased
  \/ TryRecvLoad
  \/ TryRecvEmpty
  \/ TryRecvDisconnected
  \/ TryRecvOne
  \/ ReceiverDropReleased
  \/ ReceiverDropSwap
  \/ ReceiverDropFinish

(* ---------------------------- specifications --------------------------- *)
SpecMpsc == InitMpsc /\ [][NextMpsc]_vars

\* The threads keep running: the receiver's destructor goes on with its
\* loop, and an enqueuer that has won the tail CAS goes on to its store.
SpecMpscFair ==
  /\ InitMpsc
  /\ [][NextMpsc]_vars
  /\ WF_vars(DrainStep)
  /\ WF_vars(DropFinish)
  /\ \A s \in Senders : WF_vars(EnqueueStore(s))
SpecOne  == InitOne /\ [][NextOne]_vars

(* ======================================================================= *)
(*                         MPSC: the claims                                *)
(* ======================================================================= *)
SendersIdle == \A s \in Senders : spc[s] = "idle"
NoSenderAlive == \A s \in Senders : handle[s] # "alive"
Occurrences(x) == Cardinality({i \in DOMAIN received : received[i] = x})
Holders(x) == Cardinality({s \in Senders : sItem[s] = x})
Queued(x) ==
  Cardinality({c \in Cells : cellSt[c] = "live" /\ cells[c].item = x})
Bit(b) == IF b THEN 1 ELSE 0

\* C1: once a try_recv has returned Err(Disconnected), every try_recv that
\* returns later returns Err(Disconnected) too.
C1_DisconnectedAbsorbing == afterDisc \subseteq {"Disconnected"}

\* C2: when try_recv has returned Err(Disconnected), no sender handle is
\* alive and no item whose send returned Ok is left unreceived in the queue.
C2_DisconnectedMeansDrained ==
  rres = "Disconnected" =>
    /\ NoSenderAlive
    /\ okSent \subseteq (Range(received) \cup drained)

\* C3: every item passed to send/try_send is in exactly one place: returned
\* by a try_recv, handed back in a send error, dropped by the receiver's
\* destructor, or still on its way (in the sender's hand, in the queue, in
\* the receiver's hand); nothing else is ever received; and once the
\* receiver is dropped and no send is in progress nothing is on its way.
C3_Conservation ==
  /\ Range(received) \cup returned \cup drained \subseteq sent
  /\ \A x \in sent :
        Occurrences(x) + Bit(x \in returned) + Bit(x \in drained)
          + Holders(x) + Queued(x) + Bit(rItem = x) = 1
  /\ (SendersIdle /\ rpc = "dropped") =>
        /\ sent = Range(received) \cup returned \cup drained
        /\ \A x \in sent :
             Occurrences(x) + Bit(x \in returned) + Bit(x \in drained) = 1

C3_Witness ==
  /\ SendersIdle /\ rpc = "dropped"
  /\ received # <<>> /\ returned # {} /\ drained # {}

\* C4: two items of one producer, the first sent before the second, are
\* received in that order, whatever the other producers enqueue.
C4_PerProducerFifo ==
  \A i, j \in DOMAIN received :
     (i < j /\ received[i][1] = received[j][1]) =>
        received[i][2] < received[j][2]

C4_Witness ==
  \E i, j, k \in DOMAIN received :
     /\ i < j /\ j < k
     /\ received[i][1] = received[k][1]
     /\ received[j][1] # received[i][1]

\* C5: on a bounded channel the items admitted by try_send (past the
\* capacity check and not rolled back) and not yet taken by try_recv never
\* number more than the bound.
AdmittedUnreceived == admitted \ (Range(received) \cup {rItem})

C5_BoundRespected ==
  bounded => Cardinality(AdmittedUnreceived) <= queue_capacity

C5_Witness ==
  /\ bounded /\ queue_capacity >= 1
  /\ Cardinality(AdmittedUnreceived) = queue_capacity
  /\ \E s, t \in Senders :
       s # t /\ spc[s] = "full" /\ spc[t] \in {"load", "cas", "store"}

\* C11: Sender::send returns Err(SendError(item)), with the item passed in,
\* exactly when the receiver's destructor had swapped the tail cursor to null
\* before the send's CAS could succeed: no send has failed while the receiver
\* has not swapped, a failed send's item never won the CAS, no CAS succeeds
\* after the swap, and a send begun after the swap never gets past its load
\* of the tail, where it fails.
C11_SendFailsIffReceiverGone ==
  /\ ~bounded =>
       /\ returned # {} => RxSwapped
       /\ \A x \in returned :
            /\ x \in sent /\ x[2] <= nsent[x[1]]
            /\ x \notin Range(casOrder) /\ x \notin okSent
  /\ okSent \subseteq Range(casOrder)
  /\ \A s \in Senders :
       /\ ~sCasGone[s]
       /\ (~bounded /\ sLate[s]) => spc[s] = "load"

C11_Witness ==
  /\ ~bounded /\ RxSwapped
  /\ returned # {} /\ okSent # {}
  /\ \E s \in Senders : spc[s] = "load" /\ ~sLate[s]

\* C12: on a bounded channel a try_send begun after the receiver was dropped
\* is on its way to Err(Disconnected(item)): past the capacity check and at
\* the load of the tail, or at the rollback that follows the refused enqueue.
C12_TrySendAfterDropDisconnected ==
  \A s \in Senders :
     (bounded /\ sLate[s]) => spc[s] \in {"load", "disc"}

\* C13 as stated: a try_send is refused as Full only when, at its fetch-add,
\* the items admitted and not yet received number at least the bound.
C13_FullOnlyAtCapacity_Original ==
  [][\A s \in Senders :
       (spc[s] # "full" /\ spc'[s] = "full") =>
          Cardinality(admitted \ Range(received)) >= queue_capacity]_vars

\* C13, amended: a try_send is refused as Full only when, at its fetch-add,
\* the items admitted and not yet received, together with the refused
\* try_send calls that have not yet rolled their increment back, number at
\* least the bound.
C13_FullOnlyAtLimit ==
  [][\A s \in Senders :
       (spc[s] # "full" /\ spc'[s] = "full") =>
          Cardinality(admitted \ Range(received))
            + Cardinality({t \in Senders : spc[t] = "full"})
              >= queue_capacity]_vars

C13_Witness ==
  /\ bounded
  /\ Cardinality(admitted \ Range(received)) < queue_capacity
  /\ ~RxSwapped
  /\ \E s, t \in Senders : s # t /\ spc[s] = "full" /\ spc[t] = "full"

\* C14: no next-ref cell and no node is freed twice, and once the receiver
\* and every sender handle are gone no cell and no node allocated by the
\* queue is left unfreed.
AllHandlesGone == rpc = "dropped" /\ NoSenderAlive

C14_AllFreedOnce ==
  /\ ~dfQueue
  /\ AllHandlesGone =>
       /\ \A c \in Cells : cellSt[c] # "live"
       /\ nodeLive = {}

C14_Witness ==
  /\ AllHandlesGone
  /\ drained # {} /\ returned # {} /\ received # <<>>
  /\ \E c \in Cells : cellSt[c] = "freed"

\* C15: an operation in progress can always go on by a step of its own; the
\* receiver's destructor is never left with a drain loop that only another
\* thread's store can end.
C15_NoOperationWaits ==
  ~(rpc = "drain" /\ DrainMore(head, rTail) /\ cells[head] = NoNode)

\* C16: a try_recv begun after every sender handle was dropped returns
\* Ok(the oldest item not yet received) when there is one and
\* Err(Disconnected) when there is none, never Err(Empty).
C16_NoEmptyAfterSendersGone ==
  (rLate /\ rres # "none") =>
    /\ rres # "Empty"
    /\ rres = "Ok" =>
         /\ Len(received) <= Len(casOrder)
         /\ \A i \in DOMAIN received : received[i] = casOrder[i]
    /\ rres = "Disconnected" => okSent \subseteq Range(received)

C16_Witness ==
  /\ rLate /\ rres = "Disconnected"
  /\ received # <<>>

\* C17: when the enqueuers that won the tail CAS go on to their store, the
\* receiver's destructor, once it has swapped the tail cursor, comes to its
\* end; and at its end head is the captured tail cell and that cell is empty.
C17_TeardownTerminates ==
  /\ (rpc = "drain") ~> (rpc = "dropped")
  /\ [](rpc = "dropped" => (head = rTail /\ cells[rTail] = NoNode))

C17_Witness ==
  /\ rpc = "dropped" /\ head = rTail /\ cells[rTail] = NoNode
  /\ drained # {} /\ okSent = drained

\* C18: dequeue returns the items in the order in which their enqueues won
\* the tail CAS, whatever the order of the node stores.
C18_GlobalCasOrder ==
  /\ Len(dequeued) <= Len(casOrder)
  /\ \A i \in DOMAIN dequeued : dequeued[i] = casOrder[i]

\* an enqueuer that won the CAS later has stored, the earlier one has not,
\* and a dequeue has come back with nothing rather than with the later item
C18_Witness ==
  /\ rpc = "alive" /\ Len(dequeued) >= 1
  /\ \E i, j \in DOMAIN casOrder :
       /\ i < j /\ i = Len(dequeued) + 1
       /\ casOrder[i] \notin okSent /\ casOrder[j] \in okSent

\* C19: no cell of the queue is accessed after it was freed: the slot an
\* enqueuer is about to store its node into is live, and so is the head cell
\* whenever the receiver may read it.
C19_NoUseAfterFree ==
  /\ ~uafQueue
  /\ \A s \in Senders : spc[s] = "store" => cellSt[sOld[s]] = "live"
  /\ rpc \in {"idle", "sub", "alive", "drain"} => cellSt[head] = "live"

C19_Witness ==
  /\ rpc = "drain" /\ drained # {}
  /\ \E s \in Senders : spc[s] = "store" /\ cellSt[sOld[s]] = "live"
  /\ \E c \in Cells : cellSt[c] = "freed"

\* C21: a next-ref cell is stored into by one enqueuer only and is null at
\* the moment of that store (the debug assertion of NodeRef::store): the slot
\* an enqueuer has won is empty until it stores, no two enqueuers hold the
\* same slot, and no node stored is ever written over.
C21_SingleWriter ==
  /\ \A s \in Senders :
       spc[s] = "store" =>
         /\ cells[sOld[s]] = NoNode
         /\ \A t \in Senders :
              (t # s /\ spc[t] = "store") => sOld[t] # sOld[s]
  /\ \A x \in okSent : \E c \in Cells : cells[c].item = x

C21_Witness ==
  /\ okSent # {}
  /\ \E s, t \in Senders :
       /\ s # t /\ spc[s] = "store" /\ spc[t] = "store"
       /\ cells[sOld[s]] = NoNode /\ cells[sOld[t]] = NoNode

\* C22 as stated: a try_recv that begins while an item whose send returned Ok
\* is not yet received does not come back from dequeue with nothing.
C22_SentIsReceivable_Original ==
  [][(rpc = "idle" /\ rpc' = "alive") =>
        okSent \ Range(received) = {}]_vars

\* C22, amended: a try_recv that begins while an item whose send returned Ok
\* is not yet received returns Ok(some item), provided the oldest enqueue
\* not yet received (in the order of the tail CAS) has stored its node; while
\* that enqueuer is between its CAS and its store, dequeue finds nothing.
C22_SentIsReceivable ==
  [][(rpc = "idle" /\ rpc' = "alive" /\ okSent \ Range(received) # {}) =>
        /\ Len(received) < Len(casOrder)
        /\ casOrder[Len(received) + 1] \notin okSent]_vars

C22_Witness ==
  /\ rres = "Ok" /\ Len(received) >= 2
  /\ received[1][1] # received[2][1]
  /\ \E s \in Senders : spc[s] = "store"

\* C23: queue_len never wraps: read as an integer it is at least the number
\* of decrements still to come, one for the dequeue of a try_recv in
\* progress and one for each try_send about to roll back.
C23_QueueLenNeverWraps ==
  queue_len >= Bit(rpc = "sub")
                 + Cardinality({s \in Senders : spc[s] \in {"full", "disc"}})

(* ======================================================================= *)
(*                         oneshot: the claims                             *)
(* ======================================================================= *)
BothGone == tpc = "done" /\ opc = "done"
Disconnected1 == <<"Disconnected", 0>>

\* C6: the shared cell is never freed twice, and once the sender and the
\* receiver are both gone it has been freed exactly once.
C6_CellFreedOnce ==
  /\ oCellFrees <= 1
  /\ BothGone => oCellFrees = 1

C6_Witness ==
  /\ BothGone /\ oCellFrees = 1
  /\ txActed = "sent" /\ oEmptySeen

\* C7: the payload box allocated by send is taken back at most once, and
\* once both handles are gone exactly once: by the try_recv that returned
\* it, by the failing send that handed it back, or by the receiver's
\* destructor; nothing that is no payload box is ever taken as one.
C7_PayloadOwnedOnce ==
  /\ payTakes <= 1
  /\ payTakes > 0 => payVal # 0
  /\ ("send" \in payTakers) => sendRes = <<"Err", tVal>>
  /\ ("recv" \in payTakers) =>
        (firstAfter = <<"Ok", tVal>> \/ tVal \in oGot)
  /\ (BothGone /\ payVal # 0) =>
        /\ payTakes = 1
        /\ Cardinality(payTakers) = 1
        /\ payTakers \subseteq {"recv", "send", "drop"}

C7_Witness == BothGone /\ payTakers = {"drop"} /\ sendRes = <<"Ok", 0>>

\* C8 as stated: the first try_recv begun after send returned Ok returns
\* Ok(the sent value), every later one Err(Disconnected).
C8_OneMessage_Original ==
  /\ firstAfter \in {NoResult, <<"Ok", tVal>>}
  /\ laterAfter \subseteq {Disconnected1}

\* C8, amended: the first try_recv begun after send returned Ok returns
\* Ok(the sent value), unless a try_recv that began before send returned
\* has already returned it, and then it returns Err(Disconnected); every
\* later try_recv returns Err(Disconnected).
C8_OneMessage ==
  /\ firstAfter # NoResult =>
        \/ oGot = {} /\ firstAfter = <<"Ok", tVal>>
        \/ oGot = {tVal} /\ firstAfter = Disconnected1
  /\ laterAfter \subseteq {Disconnected1}

C8_Witness ==
  /\ firstAfter = <<"Ok", tVal>> /\ tVal # 0
  /\ laterAfter = {Disconnected1}

\* C9: send returns Err(SendError(item)), with the item passed in, exactly
\* when the receiver's destructor swapped the cell before send's swap, and
\* Ok(()) in every other case.
C9_SendFailsIffReceiverGone ==
  sendRes # NoResult =>
    \/ sendRes = <<"Err", tVal>> /\ rxGoneAtSend
    \/ sendRes = <<"Ok", 0>> /\ ~rxGoneAtSend

C9_Witness ==
  /\ sendRes = <<"Err", tVal>> /\ tVal # 0
  /\ rxGoneAtSend /\ oEmptySeen

\* C10: a try_recv that has returned returned Err(Empty) exactly when it
\* loaded the cell while the sender had neither sent nor dropped, and the
\* receiver's pointer is then still there; it returned Err(Disconnected)
\* when the sender had dropped without sending.
C10_EmptyIffSenderIdle ==
  (opc # "loaded" /\ oRes # NoResult) =>
    /\ (oRes[1] = "Empty") <=> (oLoaded /\ oActedAtLoad = "no")
    /\ (oRes[1] = "Empty" /\ opc = "idle") => rxAvail
    /\ (oLoaded /\ oActedAtLoad = "dropped") => oRes = Disconnected1

C10_Witness ==
  /\ opc = "idle" /\ oEmptySeen
  /\ oRes = Disconnected1 /\ oLoaded /\ oActedAtLoad = "dropped"

\* C20: the shared cell is never loaded or swapped after it was freed:
\* whenever the sender or the receiver may still access it, it is live; in
\* particular it is live for the load and the release that follow a
\* failing send's swap.
C20_NoCellUseAfterFree ==
  /\ ~oUaf
  /\ tpc = "start" => oCellSt = "live"
  /\ (tpc = "sent" /\ tOld # mark_empty) => oCellSt = "live"
  /\ tpc = "failed" => oCellSt = "live"
  /\ (opc = "idle" /\ rxAvail) => oCellSt = "live"

C20_Witness ==
  /\ BothGone /\ oCellSt = "freed"
  /\ sendRes[1] = "Err" /\ payTakers = {"send"}
  /\ rxDropSwapped

====
